---- MODULE Spec2Model ----
(***************************************************************************)
(* Model of the FastRGBChristmasTree LED frame buffer (src/tree.py) and of *)
(* the animation driver that calls it (src/christmastree.py).              *)
(*                                                                         *)
(* The transmission buffer __buf is a function from the Python list index  *)
(* (0 .. BufLen-1) to the integer stored there.  Python lists given as     *)
(* values are TLA+ sequences, so the Python element val[k] is val[k+1] and *)
(* the Python element val[-k] is val[Len(val)+1-k].                        *)
(***************************************************************************)
EXTENDS Integers, Sequences, FiniteSets, TLC

VARIABLES
    buf,        \* __buf of the tree constructed last
    spi,        \* _spi of that tree: frames transferred so far, and the last one
    old,        \* buf and spi.n as they were when the last call started
    last,       \* the last call: operation, arguments, outcome
    nops,       \* number of calls made so far
    clean,      \* no call on the tree has raised, and none was reset()
    mainpc      \* position of the __main__ loop of christmastree.py

vars == <<buf, spi, old, last, nops, clean, mainpc>>

---------------------------------------------------------------------------
(* Program constants *)

nled == 25
offset == 4
end_padding == 5
NUM_LEDS == 25
STAR_INDEX == 3
BufLen == offset + nled * 4 + end_padding

WHITE == <<255, 255, 255>>
RED == <<255, 0, 0>>
GREEN == <<0, 255, 0>>
BLUE == <<0, 0, 255>>
YELLOW == <<255, 255, 0>>
MAGENTA == <<255, 0, 255>>
CYAN == <<0, 255, 255>>

GRADIENT_RYG == <<RED, YELLOW, GREEN>>
GRADIENT_YGB == <<YELLOW, GREEN, BLUE>>
GRADIENT_GBR == <<GREEN, BLUE, RED>>
GRADIENT_BRY == <<BLUE, RED, YELLOW>>

(* Bounds of the model *)

MaxOps == 2      \* calls made in one run
MaxCount == 2    \* largest frame count given to an effect called directly

---------------------------------------------------------------------------
(* Python integer operators: | and & on unbounded two's-complement ints.   *)
(* \div and % are floor division and its remainder, as in Python.          *)

RECURSIVE BitOr(_, _)
BitOr(a, b) ==
    IF a = 0 THEN b
    ELSE IF b = 0 THEN a
    ELSE IF a = -1 \/ b = -1 THEN -1
    ELSE (IF a % 2 = 1 \/ b % 2 = 1 THEN 1 ELSE 0)
         + 2 * BitOr(a \div 2, b \div 2)

RECURSIVE BitAnd(_, _)
BitAnd(a, b) ==
    IF a = 0 \/ b = 0 THEN 0
    ELSE IF a = -1 THEN b
    ELSE IF b = -1 THEN a
    ELSE (IF a % 2 = 1 /\ b % 2 = 1 THEN 1 ELSE 0)
         + 2 * BitAnd(a \div 2, b \div 2)

(* range(start, stop, step) as the list of its elements, step # 0 *)
RECURSIVE PyRange(_, _, _)
PyRange(start, stop, step) ==
    IF (step > 0 /\ start < stop) \/ (step < 0 /\ start > stop)
    THEN <<start>> \o PyRange(start + step, stop, step)
    ELSE <<>>

---------------------------------------------------------------------------
(* Arguments of __setitem__                                                *)

(* An optional integer (None or n) is the empty or the one-element sequence *)
None == <<>>
Some(n) == <<n>>
OrElse(opt, dflt) == IF opt = None THEN dflt ELSE opt[1]

(* ind: an int, a slice(start, stop, step), or the tuple (slice(None), k)  *)
IntInd(i) == [start |-> None, stop |-> None, step |-> None, i |-> i, kind |-> "int"]
SliceInd(a, b, c) == [start |-> a, stop |-> b, step |-> c, i |-> 0, kind |-> "slice"]
TupleInd(k) == [start |-> None, stop |-> None, step |-> None, i |-> k, kind |-> "tuple"]
NoInd == [start |-> None, stop |-> None, step |-> None, i |-> 0, kind |-> "none"]

RECURSIVE Iota(_)
Iota(n) == IF n = 0 THEN <<>> ELSE Append(Iota(n - 1), n)

RECURSIVE Copies(_, _)
Copies(x, n) == IF n = 0 THEN <<>> ELSE Append(Copies(x, n - 1), x)

(* val: a flat list of numbers (one record) or a list of lists (records). *)
(* recs[k] is what the k-th list holds and ids[k] names the list object:   *)
(* positions with one id are one object, so a write through one of them    *)
(* shows through the others                                                *)
Flat(rec) == [flat |-> TRUE, recs |-> <<rec>>, ids |-> <<1>>]
(* [rec1, rec2, ...], each a list of its own *)
Nested(recs) == [flat |-> FALSE, recs |-> recs, ids |-> Iota(Len(recs))]
(* [rec] * n, or r = rec; [r, r, ...]: one list n times *)
Repeated(rec, n) == [flat |-> FALSE, recs |-> Copies(rec, n), ids |-> Copies(1, n)]
NoVal == [flat |-> FALSE, recs |-> <<>>, ids |-> <<>>]

(* len(val) *)
PyLen(val) == IF val.flat THEN Len(val.recs[1]) ELSE Len(val.recs)

(* Outcome of a call: returned normally, or raised err; buf is __buf after it *)
Returned(b, val) == [ok |-> TRUE, err |-> "", buf |-> b, val |-> val]
Raised(err, b, val) == [ok |-> FALSE, err |-> err, buf |-> b, val |-> val]

---------------------------------------------------------------------------
(* FastRGBChristmasTree                                                    *)

(* frame_s + [0] * nled * 4 + frame_end *)
zeros == [k \in 0 .. BufLen - 1 |-> 0]

(* __brightness_convert: the range test, and the value returned *)
brightness_in_range_upto32(val) == ~(val > 32 \/ val < 1)
brightness_in_range(val) == ~(val > 31 \/ val < 1)

brightness_convert_nomarker(val) == val
brightness_convert(val) == BitOr(224, val)

(* __brightness_revert *)
brightness_revert(val) == BitAnd(31, val)

(* self.__buf[k] = v on a Python list: negative k counts from the end *)
PyIndexOk(b, k) == k >= -BufLen /\ k < BufLen
PyStore(b, k, v) == [b EXCEPT ![IF k < 0 THEN k + BufLen ELSE k] = v]

(* lines 62-64: the three stores, the first that is out of range raises *)
swap_store(b, s, val) ==
    LET n == Len(val)
    IN  IF ~PyIndexOk(b, s) THEN Raised("IndexError", b, val)
        ELSE LET b1 == PyStore(b, s, val[n])
             IN  IF ~PyIndexOk(b, s + 1) THEN Raised("IndexError", b1, val)
                 ELSE LET b2 == PyStore(b1, s + 1, val[n - 1])
                      IN  IF ~PyIndexOk(b, s + 2) THEN Raised("IndexError", b2, val)
                          ELSE Returned(PyStore(b2, s + 2, val[n - 2]), val)

(* setitem_scalar without the `s += 1` of line 57 *)
setitem_scalar_noshift(b, ind, val) ==
    IF Len(val) < 3 \/ Len(val) > 4 THEN Raised("IndexError", b, val)
    ELSE IF \E k \in 1 .. Len(val) : val[k] > 255 THEN Raised("ValueError", b, val)
    ELSE IF Len(val) = 3 THEN swap_store(b, offset + ind * 4, val)
    ELSE IF ~brightness_in_range(val[1]) THEN Raised("ValueError", b, val)
    ELSE swap_store(b, offset + ind * 4,
                    [val EXCEPT ![1] = brightness_convert(val[1])])

(* __setitem__ with an int ind and a flat val, lines 46-64 *)
setitem_scalar(b, ind, val) ==
    IF Len(val) < 3 \/ Len(val) > 4 THEN Raised("IndexError", b, val)
    ELSE IF \E k \in 1 .. Len(val) : val[k] > 255 THEN Raised("ValueError", b, val)
    ELSE IF Len(val) = 3 THEN swap_store(b, offset + ind * 4 + 1, val)
    ELSE IF ~brightness_in_range(val[1]) THEN Raised("ValueError", b, val)
    ELSE swap_store(b, offset + ind * 4,
                    [val EXCEPT ![1] = brightness_convert(val[1])])

(* lines 35-37: one list object val is handed to every call, so a call     *)
(* sees val as the previous call left it                                   *)
RECURSIVE setitem_broadcast(_, _, _)
setitem_broadcast(b, r, val) ==
    IF r = <<>> THEN Returned(b, val)
    ELSE LET res == setitem_scalar(b, Head(r), val)
         IN  IF ~res.ok THEN res
             ELSE setitem_broadcast(res.buf, Tail(r), res.val)

(* what the lists of val hold after the list at position k was left as   *)
(* rec: every position that is the same object shows rec                   *)
written_through(recs, ids, k, rec) ==
    [j \in 1 .. Len(recs) |-> IF ids[j] = ids[k] THEN rec ELSE recs[j]]

(* lines 39-41: r[i] gets val[i], for i = k - 1 onwards; val[i] is the     *)
(* list object itself, so line 59 of an earlier call has already written   *)
(* into it when that call had the same object                              *)
RECURSIVE setitem_pairwise(_, _, _, _, _)
setitem_pairwise(b, r, recs, ids, k) ==
    IF k > Len(recs) THEN Returned(b, recs)
    ELSE LET res == setitem_scalar(b, r[k], recs[k])
         IN  IF ~res.ok
             THEN Raised(res.err, res.buf, written_through(recs, ids, k, res.val))
             ELSE setitem_pairwise(res.buf, r,
                                   written_through(recs, ids, k, res.val), ids, k + 1)

(* the range a slice resolves to, lines 30-33 *)
slice_range(ind) ==
    PyRange(OrElse(ind.start, 0), OrElse(ind.stop, nled), OrElse(ind.step, 1))

(* __setitem__, lines 27-64 *)
setitem(b, ind, val) ==
    IF ind.kind = "slice" THEN
        LET r == slice_range(ind)
        IN  IF PyLen(val) = 0 THEN Raised("IndexError", b, val)
            ELSE IF val.flat THEN setitem_broadcast(b, r, val.recs[1])
            ELSE IF Len(val.recs) = Len(r)
                 THEN setitem_pairwise(b, r, val.recs, val.ids, 1)
            ELSE Raised("IndexError", b, val)
    ELSE IF PyLen(val) < 3 \/ PyLen(val) > 4 THEN Raised("IndexError", b, val)
    ELSE IF ~val.flat THEN Raised("TypeError", b, val)
    ELSE IF \E k \in 1 .. PyLen(val) : val.recs[1][k] > 255
         THEN Raised("ValueError", b, val)
    ELSE IF ind.kind = "tuple" THEN Raised("TypeError", b, val)
    ELSE setitem_scalar(b, ind.i, val.recs[1])

(* __getitem__, lines 66-70 *)
getitem(b, ind) ==
    LET s == offset + ind * 4
    IN  <<brightness_revert(b[s]), b[s + 1], b[s + 2], b[s + 3]>>

(* off, lines 88-89: a new list [1, 0, 0, 0] for every index *)
RECURSIVE off_from(_, _)
off_from(b, i) ==
    IF i >= nled THEN Returned(b, <<>>)
    ELSE LET res == setitem_scalar(b, i, <<1, 0, 0, 0>>)
         IN  IF ~res.ok THEN res ELSE off_from(res.buf, i + 1)

off(b) == off_from(b, 0)

(* reset, lines 93-94 *)
reset(b) == [k \in DOMAIN b |-> 0]

(* brightness getter, lines 98-103: val / nled as quotient and remainder *)
RECURSIVE brightness_sum(_, _)
brightness_sum(b, i) ==
    IF i >= nled THEN 0 ELSE b[offset + i * 4] + brightness_sum(b, i + 1)

brightness(b) ==
    [quot |-> brightness_sum(b, 0) \div nled, rem |-> brightness_sum(b, 0) % nled]

(* brightness setter, lines 106-109: the first iteration raises or none does *)
brightness_setter(b, val) ==
    IF nled > 0 /\ ~brightness_in_range(val) THEN Raised("ValueError", b, <<val>>)
    ELSE Returned([k \in DOMAIN b |->
                      IF k >= offset /\ k < offset + nled * 4 /\ (k - offset) % 4 = 0
                      THEN brightness_convert(val) ELSE b[k]], <<val>>)

(* the SPI device of a tree as SPIDevice.__init__ leaves it *)
NewSpi == [n |-> 0, frame |-> <<>>]

(* commit sending the LED records without the start and end frames *)
commit_nopadding(s, b) ==
    [n |-> s.n + 1, frame |-> [k \in offset .. offset + nled * 4 - 1 |-> b[k]]]

(* commit, line 85: the whole of __buf goes to the transport *)
commit(s, b) == [n |-> s.n + 1, frame |-> b]

(* __init__, lines 17-22: reset() and off(), each ending in a commit *)
construct(s) ==
    LET b1 == reset(zeros)
        s1 == commit(s, b1)
        b2 == off(b1).buf
    IN  [ok |-> TRUE, err |-> "", buf |-> b2, spi |-> commit(s1, b2)]

---------------------------------------------------------------------------
(* christmastree.py                                                        *)

EffectNames == {"swirl", "spin", "sparkle", "randomcolour"}

(* random(): what a call returns is an input of the effect. A float x in   *)
(* [0, 1) is given as the integer x * RandDen, for the floats where that   *)
(* is an integer; on them the arithmetic below is exact. draws is the      *)
(* sequence of the values the calls of one effect return, in call order    *)
RandDen == 65536

(* random() < on_probability with on_probability = 0.66, line 131 *)
below_on_probability(x) == x * 100 < 66 * RandDen

(* random_colour, lines 44-47: hue x/RandDen, saturation 1, value 1,       *)
(* converted to RGB (sector i of the hue circle, fraction f/RandDen within *)
(* it), each channel times 255 truncated to an integer                     *)
random_colour(x) ==
    LET i == (6 * x) \div RandDen
        f == (6 * x) % RandDen
        t == (f * 255) \div RandDen
        q == ((RandDen - f) * 255) \div RandDen
    IN  CASE i = 0 -> <<255, t, 0>>
          [] i = 1 -> <<q, 255, 0>>
          [] i = 2 -> <<0, 255, t>>
          [] i = 3 -> <<0, q, 255>>
          [] i = 4 -> <<t, 0, 255>>
          [] OTHER -> <<255, 0, q>>

(* deque.rotate(-1) applied f times *)
RECURSIVE rotate(_, _)
rotate(dq, f) ==
    IF f = 0 \/ dq = <<>> THEN dq ELSE rotate(Tail(dq) \o <<Head(dq)>>, f - 1)

(* the assignments tree[ind] = val one frame of an effect makes, in order  *)
swirl_frame(f) ==
    LET gradients == rotate(<<GRADIENT_RYG, GRADIENT_YGB, GRADIENT_GBR, GRADIENT_BRY>>, f)
    IN  [c \in 1 .. 2 * Len(gradients) |->
            [ind |-> TupleInd(c - 1), val |-> Nested(gradients[(c + 1) \div 2])]]

spin_frame(f) ==
    LET colours == rotate(<<WHITE, RED, GREEN, BLUE, WHITE, YELLOW, MAGENTA, CYAN>>, f)
    IN  [c \in 1 .. Len(colours) |->
            [ind |-> TupleInd(c - 1), val |-> Flat(colours[c])]]

sparkle_frame(f, draws) ==
    [c \in 1 .. NUM_LEDS |->
        LET brightness_ == IF below_on_probability(draws[f * NUM_LEDS + c])
                           THEN 255 ELSE 0
        IN  [ind |-> IntInd(c - 1),
             val |-> Flat(<<1, brightness_, brightness_, brightness_>>)]]

randomcolour_frame(f, draws) ==
    [c \in 1 .. NUM_LEDS |->
        [ind |-> IntInd(c - 1),
         val |-> Flat(<<1>> \o random_colour(draws[f * NUM_LEDS + c]))]]

frame_calls(effect, f, draws) ==
    CASE effect = "swirl" -> swirl_frame(f)
      [] effect = "spin" -> spin_frame(f)
      [] effect = "sparkle" -> sparkle_frame(f, draws)
      [] OTHER -> randomcolour_frame(f, draws)

(* a tree and its transport while an effect runs: ok until a call raises *)
Running(b, s) == [ok |-> TRUE, err |-> "", buf |-> b, spi |-> s]

(* tree[ind] = val, unless an earlier call has raised *)
then_set(t, ind, val) ==
    IF ~t.ok THEN t
    ELSE [ok |-> setitem(t.buf, ind, val).ok, err |-> setitem(t.buf, ind, val).err,
          buf |-> setitem(t.buf, ind, val).buf, spi |-> t.spi]

(* tree.commit(), unless an earlier call has raised *)
then_commit(t) == IF ~t.ok THEN t ELSE [t EXCEPT !.spi = commit(t.spi, t.buf)]

(* the assignments of one frame, until one raises *)
RECURSIVE set_all(_, _)
set_all(t, calls) ==
    IF calls = <<>> THEN t
    ELSE set_all(then_set(t, Head(calls).ind, Head(calls).val), Tail(calls))

(* for _ in range(count): the frame's assignments, then tree.commit()      *)
RECURSIVE frames_loop(_, _, _, _, _)
frames_loop(effect, t, f, count, draws) ==
    IF f >= count \/ ~t.ok THEN t
    ELSE frames_loop(effect, then_commit(set_all(t, frame_calls(effect, f, draws))),
                     f + 1, count, draws)

(* tree[STAR_INDEX] = WHITE in swirl and spin *)
star(effect, t) ==
    IF effect \in {"swirl", "spin"}
    THEN then_set(t, IntInd(STAR_INDEX), Flat(WHITE))
    ELSE t

(* swirl, spin, sparkle, randomcolour: a new tree, the star for swirl and  *)
(* spin, then the frames                                                   *)
run_effect(effect, s, count, draws) ==
    frames_loop(effect, star(effect, construct(s)), 0, count, draws)

(* the frame counts of the __main__ loop, lines 158-161 *)
main_count(effect) == IF effect \in {"swirl", "spin"} THEN 75 ELSE 300

main_next(effect) ==
    CASE effect = "swirl" -> "spin"
      [] effect = "spin" -> "sparkle"
      [] effect = "sparkle" -> "randomcolour"
      [] OTHER -> "swirl"

---------------------------------------------------------------------------
(* Inputs of the calls                                                     *)

Idx == {0, nled - 1}

Rec3 == {<<0, 0, 0>>, <<1, 2, 3>>, RED, GREEN, BLUE, WHITE, <<0, 0, -1>>,
         <<256, 0, 0>>, <<0, 256, 0>>, <<0, 0, 256>>}

Rec4 == {<<br>> \o rgb : br \in {0, 1, 31, 32},
                         rgb \in {<<0, 0, 0>>, <<1, 2, 3>>, RED}}
        \cup {<<-1, 0, 0, 0>>, <<255, 0, 0, 0>>, <<256, 0, 0, 0>>, <<1, 0, 0, 256>>}

RecOther == {<<>>, <<0, 0>>, <<1, 0, 0, 0, 0>>}

ScalarRecs == Rec3 \cup Rec4 \cup RecOther

ScalarVals == {Flat(rec) : rec \in ScalarRecs} \cup {Nested(GRADIENT_RYG)}

Slices == {SliceInd(None, None, None), SliceInd(Some(0), Some(3), None),
           SliceInd(Some(0), Some(6), None),
           SliceInd(Some(nled - 1), None, None), SliceInd(Some(2), Some(2), None),
           SliceInd(None, None, Some(12)), SliceInd(Some(24), Some(22), Some(-1))}

SliceVals ==
    {Flat(rec) : rec \in {<<>>, <<1, 2, 3>>, <<0, 0, 256>>,
                          <<1, 0, 0, 0>>, <<31, 1, 2, 3>>, <<0, 1, 2, 3>>}}
    \cup
    {Nested(recs) : recs \in
        {<<>>, <<RED>>, <<<<2, 255, 0, 0>>>>, <<<<1, 2, 3>>, <<4, 5, 6>>>>,
         <<RED, GREEN, BLUE>>, <<RED, <<0, 0, 256>>, BLUE>>,
         <<<<1, 1, 2, 3>>, <<31, 4, 5, 6>>, <<32, 7, 8, 9>>>>,
         <<<<1, 9, 9, 9>>, <<1, 9, 9, 9>>>>,
         <<RED, GREEN, BLUE, YELLOW, MAGENTA, CYAN>>}}
    \cup
    {Repeated(RED, 3), Repeated(<<1, 9, 9, 9>>, 2), Repeated(<<31, 1, 2, 3>>, 3)}

TupleVals == {Flat(WHITE), Flat(<<0, 0, 256>>), Flat(<<0, 0>>), Nested(GRADIENT_RYG)}

BrightnessVals == {0, 1, 10, 31, 32}

(* random(): the first 100 values random() returns after random.seed(0)    *)
(* and after random.seed(1), each given by the multiple of 1/RandDen next  *)
(* to it on which random_colour and the comparison with on_probability     *)
(* give what they give on the value itself                                 *)
Stream0 == <<
    55340, 49673, 27562, 16968, 33506, 26537, 51367, 19877, 31234, 38232,
    59514, 33075, 18470, 49532, 40525, 16417, 59621, 64407, 53098, 59124,
    20325, 47830, 58906, 44825, 30942, 6599, 28453, 40035, 59835, 63347,
    31261, 56708, 17071, 52758, 35959, 920, 47166, 26137, 54057, 43788,
    74, 32347, 56859, 15984, 21312, 57047, 12521, 37192, 15637, 63408,
    52637, 29358, 5272, 20975, 33288, 61134, 7147, 36127, 46305, 35877,
    53376, 35408, 63166, 39530, 38510, 29162, 39078, 25224, 37725, 19027,
    12411, 12237, 40158, 43034, 31229, 5886, 49650, 57460, 60514, 55211,
    58862, 60495, 35428, 25643, 46221, 18063, 53190, 55671, 58657, 38653,
    62243, 37990, 29528, 43269, 65290, 60092, 51991, 5398, 40159, 31879>>

Stream1 == <<
    8805, 55537, 50054, 16716, 32469, 29457, 42702, 51689, 6151, 1857,
    54772, 28361, 49956, 138, 29188, 47286, 14992, 61949, 59075, 2004,
    1667, 35482, 61548, 24982, 14195, 27663, 1903, 14528, 28697, 32493,
    15275, 15130, 14338, 30120, 18991, 1408, 54891, 36467, 42093, 12183,
    65047, 56357, 7922, 21803, 47283, 46608, 61370, 27663, 54397, 43929,
    19881, 38507, 57834, 55456, 33114, 38600, 2262, 15908, 52258, 27152,
    11338, 35966, 46074, 44203, 24556, 28767, 33320, 51016, 34140, 25772,
    32092, 1938, 2849, 46096, 64434, 38874, 25794, 11164, 32914, 64361,
    50497, 35364, 56379, 15215, 33670, 62420, 37866, 30089, 17647, 35913,
    62725, 374, 51357, 53771, 58076, 48529, 53027, 33992, 36789, 27924>>

(* 0, the two values either side of on_probability, the largest value *)
DrawVals == {0, 43253, 43254, RandDen - 1}

(* the draws of an effect of at most MaxCount frames *)
DrawSeqs ==
    {SubSeq(Stream0, 1, MaxCount * NUM_LEDS), SubSeq(Stream1, 1, MaxCount * NUM_LEDS)}
    \cup {Copies(x, MaxCount * NUM_LEDS) : x \in DrawVals}

(* the draws of the longest effect of the __main__ loop *)
MainDraws == {[n \in 1 .. main_count("sparkle") * NUM_LEDS |-> x] : x \in DrawVals}

---------------------------------------------------------------------------
(* The calls                                                               *)

Call(op, ind, val, ok, err, count, ret) ==
    [val |-> val, ok |-> ok, err |-> err, ind |-> ind,
     count |-> count, op |-> op, ret |-> ret]

Before == [buf |-> buf, n |-> spi.n]

(* tree[ind] = val *)
Set(ind, val) ==
    /\ nops < MaxOps
    /\ LET res == setitem(buf, ind, val)
       IN  /\ buf' = res.buf
           /\ last' = Call("set", ind, val, res.ok, res.err, 0, <<>>)
           /\ clean' = (clean /\ res.ok)
    /\ old' = Before
    /\ nops' = nops + 1
    /\ UNCHANGED <<spi, mainpc>>

SetScalar == \E i \in Idx, val \in ScalarVals : Set(IntInd(i), val)

SetSlice == \E ind \in Slices, val \in SliceVals : Set(ind, val)

SetTuple == \E k \in {0}, val \in TupleVals : Set(TupleInd(k), val)

(* tree[ind] *)
Get ==
    \E i \in Idx :
        /\ nops < MaxOps
        /\ last' = Call("get", IntInd(i), NoVal, TRUE, "", 0, getitem(buf, i))
        /\ old' = Before
        /\ nops' = nops + 1
        /\ UNCHANGED <<buf, spi, clean, mainpc>>

(* tree.commit() *)
Commit ==
    /\ nops < MaxOps
    /\ spi' = commit(spi, buf)
    /\ last' = Call("commit", NoInd, NoVal, TRUE, "", 0, <<>>)
    /\ old' = Before
    /\ nops' = nops + 1
    /\ UNCHANGED <<buf, clean, mainpc>>

(* tree.off(), lines 87-90 *)
Off ==
    /\ nops < MaxOps
    /\ LET res == off(buf)
       IN  /\ buf' = res.buf
           /\ spi' = IF res.ok THEN commit(spi, res.buf) ELSE spi
           /\ last' = Call("off", NoInd, NoVal, res.ok, res.err, 0, <<>>)
           /\ clean' = (clean /\ res.ok)
    /\ old' = Before
    /\ nops' = nops + 1
    /\ UNCHANGED mainpc

(* tree.reset(), lines 92-95 *)
Reset ==
    /\ nops < MaxOps
    /\ buf' = reset(buf)
    /\ spi' = commit(spi, reset(buf))
    /\ last' = Call("reset", NoInd, NoVal, TRUE, "", 0, <<>>)
    /\ clean' = FALSE
    /\ old' = Before
    /\ nops' = nops + 1
    /\ UNCHANGED mainpc

(* tree.brightness *)
BrightnessGet ==
    /\ nops < MaxOps
    /\ last' = Call("brightness", NoInd, NoVal, TRUE, "", 0,
                    <<brightness(buf).quot, brightness(buf).rem>>)
    /\ old' = Before
    /\ nops' = nops + 1
    /\ UNCHANGED <<buf, spi, clean, mainpc>>

(* tree.brightness = val *)
BrightnessSet ==
    \E val \in BrightnessVals :
        /\ nops < MaxOps
        /\ LET res == brightness_setter(buf, val)
           IN  /\ buf' = res.buf
               /\ last' = Call("brightness=", NoInd, Flat(<<val>>), res.ok, res.err,
                               0, <<>>)
               /\ clean' = (clean /\ res.ok)
        /\ old' = Before
        /\ nops' = nops + 1
        /\ UNCHANGED <<spi, mainpc>>

(* swirl(count), spin(count), sparkle(count), randomcolour(count): the     *)
(* effect constructs a tree of its own; buf and spi are that tree's when   *)
(* the call returns or raises                                              *)
EffectEnds(effect, count, t) ==
    /\ buf' = t.buf
    /\ spi' = t.spi
    /\ last' = Call(effect, NoInd, NoVal, t.ok, t.err, count, <<>>)
    /\ clean' = t.ok
    /\ old' = Before
    /\ nops' = nops + 1

Effect ==
    \E effect \in EffectNames, count \in 0 .. MaxCount, draws \in DrawSeqs :
        /\ nops < MaxOps
        /\ EffectEnds(effect, count, run_effect(effect, NewSpi, count, draws))
        /\ UNCHANGED mainpc

(* one pass of the body of `while True`, lines 157-161: the effect at      *)
(* mainpc; an exception it raises is caught nowhere and ends the program   *)
Main ==
    \E draws \in MainDraws :
        /\ nops < MaxOps
        /\ mainpc \in EffectNames
        /\ EffectEnds(mainpc, main_count(mainpc),
                      run_effect(mainpc, NewSpi, main_count(mainpc), draws))
        /\ mainpc' = IF last'.ok THEN main_next(mainpc) ELSE "crashed"

(* tree = FastRGBChristmasTree(): the state when __init__ returns *)
Init ==
    /\ buf = construct(NewSpi).buf
    /\ spi = construct(NewSpi).spi
    /\ old = [buf |-> zeros, n |-> 0]
    /\ last = Call("init", NoInd, NoVal, TRUE, "", 0, <<>>)
    /\ nops = 0
    /\ clean = TRUE
    /\ mainpc = "swirl"

(* a client of tree.py: one tree, and the calls of its interface *)
Next ==
    \/ SetScalar
    \/ SetSlice
    \/ SetTuple
    \/ Get
    \/ Commit
    \/ Off
    \/ Reset
    \/ BrightnessGet
    \/ BrightnessSet

Spec == Init /\ [][Next]_vars

(* christmastree.py: its effects called one by one, and its __main__ loop *)
DriverNext ==
    \/ Effect
    \/ Main

DriverSpec == Init /\ [][DriverNext]_vars

---------------------------------------------------------------------------
(* Vocabulary of the properties                                            *)

Leds == 0 .. nled - 1

(* place of wire byte j (0 .. 3) of LED i in the buffer *)
Wire(i, j) == offset + i * 4 + j

(* the last call was tree[i] = rec with an int i and a flat list rec *)
ScalarSetCall == last.op = "set" /\ last.ind.kind = "int" /\ last.val.flat

(* the last call was tree[slice] = val *)
SliceSetCall == last.op = "set" /\ last.ind.kind = "slice"

TheRec == last.val.recs[1]
TheLed == last.ind.i

(* a record the interface accepts: 3 or 4 elements, none above 255, and a  *)
(* leading brightness, when there are 4, within 1 .. 31                    *)
ValidRecord(rec) ==
    /\ Len(rec) \in {3, 4}
    /\ \A k \in 1 .. Len(rec) : rec[k] <= 255
    /\ Len(rec) = 4 => rec[1] \in 1 .. 31

ChannelsInByteRange(rec) ==
    \A k \in (Len(rec) - 2) .. Len(rec) : rec[k] \in 0 .. 255

PaddingZero(b) ==
    /\ \A k \in 0 .. offset - 1 : b[k] = 0
    /\ \A k \in offset + nled * 4 .. BufLen - 1 : b[k] = 0

SameLed(b1, b2, i) == \A j \in 0 .. 3 : b1[Wire(i, j)] = b2[Wire(i, j)]

---------------------------------------------------------------------------
(* C1: after a successful tree[i] = [br, r, g, b] with br in 1..31 and     *)
(* r, g, b in 0..255, tree[i] reads [br, b, g, r]: wire byte 0 of the LED  *)
(* holds 224 + br (0xE0 | br) and wire bytes 1..3 hold b, g, r.            *)
C1_SetThenGet ==
    (/\ ScalarSetCall
     /\ Len(TheRec) = 4
     /\ TheRec[1] \in 1 .. 31
     /\ ChannelsInByteRange(TheRec))
    => /\ last.ok
       /\ getitem(buf, TheLed) = <<TheRec[1], TheRec[4], TheRec[3], TheRec[2]>>
       /\ buf[Wire(TheLed, 0)] = 224 + TheRec[1]

(* C2: after off(), every LED reads [1, 0, 0, 0], the start and end        *)
(* padding bytes are 0, and the call has transmitted exactly one frame.    *)
C2_OffBlanksEveryLed ==
    last.op = "off"
    => /\ \A i \in Leds : getitem(buf, i) = <<1, 0, 0, 0>>
       /\ PaddingZero(buf)
       /\ spi.n = old.n + 1

(* C3: tree[slice] = rec with one flat record that a scalar assignment     *)
(* accepts succeeds, leaves every selected LED as tree[i] = rec would      *)
(* leave it and every other LED unchanged, for ranges of any length.       *)
C3_Broadcast ==
    (/\ SliceSetCall
     /\ last.val.flat
     /\ ValidRecord(TheRec))
    => /\ last.ok
       /\ \A i \in Leds :
            IF \E m \in 1 .. Len(slice_range(last.ind)) : slice_range(last.ind)[m] = i
            THEN SameLed(buf, setitem_scalar(old.buf, i, TheRec).buf, i)
            ELSE SameLed(buf, old.buf, i)

(* C4: tree[i] = [r, g, b] with r, g, b in 0..255 writes b, g, r to wire   *)
(* bytes 1, 2, 3 of LED i, leaves the brightness byte of LED i as it was,  *)
(* and changes no byte of another LED or of the padding.                   *)
C4_SetRGB ==
    (/\ ScalarSetCall
     /\ Len(TheRec) = 3
     /\ ChannelsInByteRange(TheRec))
    => /\ last.ok
       /\ buf[Wire(TheLed, 1)] = TheRec[3]
       /\ buf[Wire(TheLed, 2)] = TheRec[2]
       /\ buf[Wire(TheLed, 3)] = TheRec[1]
       /\ getitem(buf, TheLed)
            = <<old.buf[Wire(TheLed, 0)] % 32, TheRec[3], TheRec[2], TheRec[1]>>
       /\ \A k \in 0 .. BufLen - 1 :
            k \notin {Wire(TheLed, 1), Wire(TheLed, 2), Wire(TheLed, 3)}
            => buf[k] = old.buf[k]

(* the case of C4: an RGB triple written to the last LED of a tree whose   *)
(* brightness had been set to 10 before                                    *)
C4_Witness ==
    /\ ScalarSetCall
    /\ TheRec = <<1, 2, 3>>
    /\ TheLed = nled - 1
    /\ last.ok
    /\ old.buf[Wire(TheLed, 0)] = 234
    /\ buf # old.buf

(* C5: in every frame transmitted by commit() or off() on a tree on which  *)
(* every call so far succeeded and none was reset(), the brightness byte   *)
(* of each LED is in 224 .. 255 (its top three bits are 111).              *)
C5_BrightnessMarker ==
    (clean /\ last.op \in {"commit", "off"})
    => \A i \in Leds : spi.frame[Wire(i, 0)] \in 224 .. 255

(* C6: after any calls, the buffer has exactly 109 bytes, its first 4 and  *)
(* its last 5 bytes are 0, the frame handed to the transport by commit(),  *)
(* off() or reset() is the whole buffer as it is when the call ends, and   *)
(* an assignment or the brightness setter transmits nothing.               *)
C6_FrameLayout ==
    /\ DOMAIN buf = 0 .. 108
    /\ \A k \in 0 .. 3 : buf[k] = 0
    /\ \A k \in 104 .. 108 : buf[k] = 0
    /\ last.op \in {"commit", "off", "reset"}
         => spi.frame = buf /\ spi.n = old.n + 1
    /\ last.op = "commit" => buf = old.buf
    /\ last.op \in {"set", "brightness="} => spi.n = old.n

(* the case of C6: a frame committed while the last LED holds a colour *)
C6_Witness ==
    /\ last.op = "commit"
    /\ spi.n = 3
    /\ spi.frame[Wire(nled - 1, 3)] = 255

(* C7: tree[i] = rec raises exactly when rec has not 3 or 4 elements, or   *)
(* an element above 255, or 4 elements and a first one outside 1..31; and  *)
(* when it raises, no byte of the buffer has changed.                      *)
C7_ScalarValidation ==
    ScalarSetCall
    => /\ ~last.ok <=> \/ Len(TheRec) < 3
                       \/ Len(TheRec) > 4
                       \/ \E k \in 1 .. Len(TheRec) : TheRec[k] >= 256
                       \/ Len(TheRec) = 4 /\ (TheRec[1] <= 0 \/ TheRec[1] >= 32)
       /\ ~last.ok => buf = old.buf

(* the case of C7: brightness 32 refused on a tree that already holds      *)
(* colours                                                                 *)
C7_Witness ==
    /\ ScalarSetCall
    /\ Len(TheRec) = 4
    /\ TheRec[1] = 32
    /\ ~last.ok
    /\ last.err = "ValueError"
    /\ \E k \in 0 .. BufLen - 1 : buf[k] = 255

(* the selected LEDs that tree[slice] = recs has updated when it ends: the *)
(* first n of the range, each to its own record                            *)
PrefixApplied(n) ==
    LET r == slice_range(last.ind)
    IN  \A i \in Leds :
            IF \E m \in 1 .. n : r[m] = i
            THEN \E m \in 1 .. n :
                    LET rec == last.val.recs[m]
                    IN  /\ r[m] = i
                        /\ SameLed(buf, setitem_scalar(old.buf, i, rec).buf, i)
                        /\ Len(rec) = 3 =>
                              /\ buf[Wire(i, 0)] = old.buf[Wire(i, 0)]
                              /\ buf[Wire(i, 1)] = rec[3]
                              /\ buf[Wire(i, 2)] = rec[2]
                              /\ buf[Wire(i, 3)] = rec[1]
            ELSE SameLed(buf, old.buf, i)

(* number of records before the first one that is not valid *)
ValidPrefix(recs) ==
    IF \A m \in 1 .. Len(recs) : ValidRecord(recs[m]) THEN Len(recs)
    ELSE (CHOOSE k \in 1 .. Len(recs) :
             /\ ~ValidRecord(recs[k])
             /\ \A m \in 1 .. k - 1 : ValidRecord(recs[m])) - 1

(* C8: tree[slice] = recs with a list of records: when the number of       *)
(* records differs from the number of selected indices the call raises     *)
(* IndexError and no byte changes; otherwise the records are applied       *)
(* pairwise from the left, and when the k-th is the first invalid one the  *)
(* call raises with exactly the first k-1 selected LEDs updated.           *)
C8_PerIndexSlice ==
    (SliceSetCall /\ ~last.val.flat)
    => LET recs == last.val.recs
           r == slice_range(last.ind)
       IN  IF Len(recs) # Len(r)
           THEN ~last.ok /\ last.err = "IndexError" /\ buf = old.buf
           ELSE /\ PrefixApplied(ValidPrefix(recs))
                /\ PaddingZero(buf)
                /\ ValidPrefix(recs) < Len(recs) => ~last.ok
                /\ (ValidPrefix(recs) = Len(recs) /\ recs # <<>>) => last.ok

(* C9: tree.brightness = v with v in 1..31 sets the brightness byte of     *)
(* every LED to 224 + v (0xE0 | v), changes no other byte and transmits    *)
(* nothing, and tree.brightness then reads the mean of the raw bytes,      *)
(* 224 + v (234 for v = 10); with v outside 1..31 it raises and changes    *)
(* no byte.                                                                *)
C9_BrightnessProperty ==
    last.op = "brightness="
    => LET v == TheRec[1]
       IN  IF v \in 1 .. 31
           THEN /\ last.ok
                /\ \A i \in Leds : buf[Wire(i, 0)] = 224 + v
                /\ \A k \in 0 .. BufLen - 1 :
                     (\A i \in Leds : k # Wire(i, 0)) => buf[k] = old.buf[k]
                /\ spi.n = old.n
                /\ brightness(buf) = [quot |-> 224 + v, rem |-> 0]
                /\ v = 10 => brightness(buf).quot = 234
           ELSE ~last.ok /\ buf = old.buf /\ spi.n = old.n

(* the case of C9: brightness 10 set on a tree that holds a colour *)
C9_Witness ==
    /\ last.op = "brightness="
    /\ TheRec[1] = 10
    /\ last.ok
    /\ brightness(buf).quot = 234
    /\ \E i \in Leds : buf[Wire(i, 3)] = 255

(* C10: the __main__ loop never ends, every effect call returns without    *)
(* an assignment raising, and an effect called with count has transmitted  *)
(* count frames beyond the two of the construction of its tree.            *)
C10_EffectsRun ==
    /\ mainpc # "crashed"
    /\ last.op \in EffectNames => last.ok /\ spi.n = 2 + last.count

====
